---- MODULE Spec2Model ----
(***************************************************************************)
(* A model of the leveled logger of log.go: the logger (sink, level,       *)
(* formatters, hooks, mutex), the record pipeline log(), the gated call    *)
(* surface, the hook registry and the formatters.                          *)
(*                                                                         *)
(* A Go string or []byte is a sequence of tokens: "MESSAGE" is             *)
(* <<"MESSAGE">>, the template "%s" is <<"%s">>, concatenation is \o.      *)
(***************************************************************************)
EXTENDS Integers, Sequences, FiniteSets, TLC

\* ---------------------------------------------------------------- bounds
NumThreads == 2
\* A call starts only while the sink holds fewer than MaxSink tokens, and a
\* hook is registered only while fewer than MaxHooks are (the built-in two
\* apart).
MaxSink == 2
MaxHooks == 1
\* An Entry a caller builds holds at most MaxFields fields, and the caller makes
\* at most MaxEvents calls of its methods.
MaxFields == 3
MaxEvents == 3

Threads == 1..NumThreads

\* ---------------------------------------------------------------- levels
LUnrecognized == 0
LPanic == 1
LFatal == 2
LError == 3
LWarn == 4
LInfo == 5
LDebug == 6

Levels == LUnrecognized..LDebug

\* ---------------------------------------------------------------- timings
PRE == 0
POST == 1

Timings == {PRE, POST}

\* ---------------------------------------------------------------- hooks
\* What hook.Fire(e) does: the two closures newHooks registers call
\* os.Exit(1) and panic; of the hooks a caller registers here "a" and "b"
\* return nil, "e" and "f" return an error.
HookResult(h) ==
  CASE h = "exit" -> "exit"
    [] h = "panic" -> "panic"
    [] h \in {"e", "f"} -> "err"
    [] OTHER -> "nil"

PanicValue == <<"panic hook">>
ExitStatus == 1

EmptyHooks == [t \in Timings |-> [l \in Levels |-> <<>>]]

AddHook_prepend(h, t, l, hk) == [h EXCEPT ![t][l] = hk \o @]
AddHook(h, t, l, hk) == [h EXCEPT ![t][l] = @ \o hk]

newHooks_exitPre ==
  AddHook(AddHook(EmptyHooks, PRE, LFatal, <<"exit">>), POST, LPanic, <<"panic">>)
newHooks_panicPre ==
  AddHook(AddHook(EmptyHooks, POST, LFatal, <<"exit">>), PRE, LPanic, <<"panic">>)
newHooks_exitAtError ==
  AddHook(AddHook(EmptyHooks, POST, LError, <<"exit">>), POST, LPanic, <<"panic">>)
newHooks ==
  AddHook(AddHook(EmptyHooks, POST, LFatal, <<"exit">>), POST, LPanic, <<"panic">>)

\* The loop of hooks.Fire over the list l from index i: the hooks invoked, the
\* outcome of the last one, and the hook that ended the loop ("" when none).
RECURSIVE FireFrom(_, _)
FireFrom(l, i) ==
  IF i > Len(l) THEN [ran |-> <<>>, res |-> "nil", by |-> ""]
  ELSE LET r == HookResult(l[i])
       IN IF r # "nil" THEN [ran |-> <<l[i]>>, res |-> r, by |-> l[i]]
          ELSE LET rest == FireFrom(l, i + 1)
               IN [rest EXCEPT !.ran = <<l[i]>> \o rest.ran]

\* m := h.has[at]; l, ok := m[lv]
Lookup_anyLevel(h, at, lv) == IF h[at][lv] # <<>> THEN h[at][lv] ELSE h[at][LError]
Lookup(h, at, lv) == h[at][lv]

Fire_fromSecond(h, at, lv) == FireFrom(Lookup(h, at, lv), 2)
Fire(h, at, lv) == FireFrom(Lookup(h, at, lv), 1)

RECURSIVE SumLens(_, _)
SumLens(h, ps) ==
  IF ps = {} THEN 0
  ELSE LET p == CHOOSE q \in ps : TRUE
       IN Len(h[p[1]][p[2]]) + SumLens(h, ps \ {p})

\* How many hooks the registry holds.
NumHooks(h) == SumLens(h, Timings \X Levels)

\* ---------------------------------------------------------------- fields
FieldKey(idx) == <<"Field", idx>>
FormatKey == <<"Format">>

RECURSIVE mkFieldsFrom(_, _, _)
mkFieldsFrom(index, v, i) ==
  IF i > Len(v) THEN <<>>
  ELSE <<[Order |-> (i - 1) + index, Key |-> FieldKey((i - 1) + index), Value |-> v[i]]>>
       \o mkFieldsFrom(index, v, i + 1)

mkFields(index, v) == mkFieldsFrom(index, v, 1)

mkFormatFields_orderZero(format, v) ==
  <<[Order |-> 0, Key |-> FormatKey, Value |-> format]>> \o mkFields(1, v)
mkFormatFields(format, v) ==
  <<[Order |-> 1, Key |-> FormatKey, Value |-> format]>> \o mkFields(1, v)

\* sort.Sort(FieldsSort) on the short slices of an Entry is an insertion sort:
\* an element moves left while the one before it has a greater Order.
RECURSIVE InsertField(_, _)
InsertField(s, x) ==
  IF s = <<>> THEN <<x>>
  ELSE IF x.Order < s[Len(s)].Order
       THEN InsertField(SubSeq(s, 1, Len(s) - 1), x) \o <<s[Len(s)]>>
       ELSE s \o <<x>>

RECURSIVE SortFields(_)
SortFields(fds) ==
  IF fds = <<>> THEN <<>>
  ELSE InsertField(SortFields(SubSeq(fds, 1, Len(fds) - 1)), fds[Len(fds)])

\* formatTo: the last "Format" field is the template, the other values are
\* the arguments, in slice order.
RECURSIVE formatToArgs(_)
formatToArgs(fds) ==
  IF fds = <<>> THEN <<>>
  ELSE (IF fds[1].Key = FormatKey THEN <<>> ELSE <<fds[1].Value>>)
       \o formatToArgs(Tail(fds))

formatToIsFormattable(fds) == \E i \in 1..Len(fds) : fds[i].Key = FormatKey

formatToTemplate(fds) ==
  LET is == {i \in 1..Len(fds) : fds[i].Key = FormatKey}
  IN fds[CHOOSE i \in is : \A j \in is : j <= i].Value

\* fmt.Fprintf(b, f, a...) for templates whose only verb is %s and string
\* arguments: a verb without an argument prints %!s(MISSING), arguments left
\* over print %!(EXTRA string=..., ...).
RECURSIVE ExtraArgs(_, _)
ExtraArgs(a, n) ==
  IF n > Len(a) THEN <<>>
  ELSE <<"string=">> \o a[n] \o (IF n < Len(a) THEN <<", ">> ELSE <<>>) \o ExtraArgs(a, n + 1)

RECURSIVE SprintfFrom(_, _, _, _)
SprintfFrom(f, a, i, n) ==
  IF i > Len(f)
  THEN IF n <= Len(a) THEN <<"%!(EXTRA ">> \o ExtraArgs(a, n) \o <<")">> ELSE <<>>
  ELSE IF f[i] = "%s"
       THEN (IF n <= Len(a) THEN a[n] ELSE <<"%!s(MISSING)">>) \o SprintfFrom(f, a, i + 1, n + 1)
       ELSE <<f[i]>> \o SprintfFrom(f, a, i + 1, n)

Sprintf(f, a) == SprintfFrom(f, a, 1, 1)

RECURSIVE ConcatValues(_)
ConcatValues(a) ==
  IF a = <<>> THEN <<>> ELSE Sprintf(<<"%s">>, <<a[1]>>) \o ConcatValues(Tail(a))

\* format(b, fds), on the sorted fields
formatBody_noTemplate(sorted) == ConcatValues(formatToArgs(sorted))
formatBody(sorted) ==
  IF formatToIsFormattable(sorted)
  THEN Sprintf(formatToTemplate(sorted), formatToArgs(sorted))
  ELSE ConcatValues(formatToArgs(sorted))

\* ---------------------------------------------------------------- formatters
LevelString(l) ==
  CASE l = LPanic -> "panic"
    [] l = LFatal -> "fatal"
    [] l = LError -> "error"
    [] l = LWarn -> "warn"
    [] l = LInfo -> "info"
    [] l = LDebug -> "debug"
    [] OTHER -> "unrecognized"

ToUpper(s) ==
  CASE s = "panic" -> "PANIC"
    [] s = "fatal" -> "FATAL"
    [] s = "error" -> "ERROR"
    [] s = "warn" -> "WARN"
    [] s = "info" -> "INFO"
    [] s = "debug" -> "DEBUG"
    [] OTHER -> "UNRECOGNIZED"

\* The Attribute a level's colour function was built with.
LevelColor(l) ==
  CASE l = LPanic -> "91"
    [] l = LFatal -> "95"
    [] l = LError -> "96"
    [] l = LWarn -> "93"
    [] l = LInfo -> "92"
    [] l = LDebug -> "94"
    [] OTHER -> "97"

FgHiBlack == "90"
FgHiBlue == "94"

\* color.wrap
wrap(noColor, attr, s) ==
  IF noColor THEN s ELSE <<"ESC[", attr, "m">> \o s \o <<"ESC[", "0", "m">>

Tag == "TEST"
Timestamp == "<time.Now>"

\* The kinds of Formatter: the three of defaultFormatters and two a caller can
\* install with SetFormatter, which fail: "fail" returns bytes and an error,
\* "failnil" returns nil and an error.
FormatterNames == {"null", "raw", "text", "custom"}
Absent == "absent"

defaultFormatters ==
  [k \in FormatterNames |-> IF k = "custom" THEN Absent ELSE k]

\* Formatter.Format(e): the bytes, the error, and the Entry's fields afterwards
\* (sort.Sort works in place on the slice e.Fields() returns).
Format(kind, noColor, elevel, fields) ==
  CASE kind = "raw" ->
         [out |-> formatBody(SortFields(fields)) \o <<"\n">>, err |-> FALSE,
          fields |-> SortFields(fields)]
    [] kind = "text" ->
         [out |-> wrap(noColor, LevelColor(elevel), <<ToUpper(LevelString(elevel)), " ">>)
                  \o wrap(noColor, FgHiBlack, <<Tag, " ">>)
                  \o wrap(noColor, FgHiBlue, <<Timestamp, " ">>)
                  \o formatBody(SortFields(fields)) \o <<"\n">>,
          err |-> FALSE, fields |-> SortFields(fields)]
    [] kind = "fail" -> [out |-> <<"partial">>, err |-> TRUE, fields |-> fields]
    [] kind = "failnil" -> [out |-> <<>>, err |-> TRUE, fields |-> fields]
    [] OTHER -> [out |-> <<>>, err |-> FALSE, fields |-> fields]

GetFormatter_unset(fs, k) == fs[k]
GetFormatter(fs, k) == IF fs[k] # Absent THEN fs[k] ELSE "null"

\* ---------------------------------------------------------------- state
VARIABLES
  level,       \* logger.level
  formatter,   \* logger.Formatter, the active formatter
  formatters,  \* logger.formatters
  has,         \* hooks.has
  mu,          \* logger.Mutex: 0 when free, else the thread holding it
  sink,        \* the bytes the logger's Writer has accepted
  alt,         \* the bytes the Writer a caller hands to AtTo or AtTof has accepted
  NoColor,     \* the package variable NoColor
  proc,        \* the process: "running", "exited" (os.Exit), "crashed" (panic not recovered)
               \* or "faulted" (a call through a torn interface value)
  exitCode,    \* the exit status, 0 while running
  pc,          \* where each thread is
  call         \* the call each thread is in: arguments, Entry, reader, what it did so far

vars == <<level, formatter, formatters, has, mu, sink, alt, NoColor, proc, exitCode, pc, call>>

NoCall ==
  [op |-> "none", lv |-> 0, f |-> <<>>, v |-> <<>>, bld |-> "", idx |-> 0,
   built |-> FALSE, elevel |-> 0,
   fields |-> <<>>, rd |-> <<>>, nf |-> "null", dg |-> FALSE, ev |-> <<>>]

\* What a call did: k is "fire", "render", "copy" or "diag" (a line on the
\* diagnostic stream); by is the hook that ended a firing or the formatter that
\* rendered; out is the bytes rendered or accepted by the sink, or the value
\* of a panic.
Event(k, at, lv, ran, res, by, out) ==
  [k |-> k, at |-> at, lv |-> lv, ran |-> ran, res |-> res, by |-> by, out |-> out]

\* ---------------------------------------------------------------- call surface
FatalOps == {"Fatal", "Fatalf", "Fatalln"}
PanicOps == {"Panic", "Panicf", "Panicln"}
PrintOps == {"Print", "Printf", "Println"}
AtOps == {"At", "Atf"}
LogOps == {"Log"}
ToOps == {"AtTo", "AtTof"}
FormatOps == {"Fatalf", "Panicf", "Printf", "Atf", "AtTof"}
PipelineOps == FatalOps \cup PanicOps \cup PrintOps \cup AtOps \cup LogOps

\* The condition a method checks before it builds an Entry.
Gate_atGated(op, lvl) ==
  CASE op \in FatalOps -> lvl >= LFatal
    [] op \in PanicOps -> lvl >= LPanic
    [] op \in PrintOps -> lvl >= LError
    [] op \in AtOps -> lvl >= LError
    [] OTHER -> TRUE

Gate_panicOpen(op, lvl) ==
  CASE op \in FatalOps -> lvl >= LFatal
    [] op \in PrintOps -> lvl >= LError
    [] OTHER -> TRUE

Gate(op, lvl) ==
  CASE op \in FatalOps -> lvl >= LFatal
    [] op \in PanicOps -> lvl >= LPanic
    [] op \in PrintOps -> lvl >= LError
    [] OTHER -> TRUE

\* The level a method passes to newEntry.
OpLevel_printAtError(op, lv) ==
  CASE op \in FatalOps -> LFatal
    [] op \in PanicOps -> LPanic
    [] op \in PrintOps -> LError
    [] OTHER -> lv

OpLevel(op, lv) ==
  CASE op \in FatalOps -> LFatal
    [] op \in PanicOps -> LPanic
    [] op \in PrintOps -> LInfo
    [] OTHER -> lv

\* The fields a method passes to newEntry.
OpFields(op, f, v) == IF op \in FormatOps THEN mkFormatFields(f, v) ELSE mkFields(0, v)

\* entry.EntryLevel
EntryLevel_raw(elevel, lvl) == elevel
EntryLevel(elevel, lvl) == IF elevel # LUnrecognized THEN elevel ELSE lvl

\* The statements of log(), in order.
logSteps_postFirst == <<"pre", "read", "post", "lock", "copy", "unlock">>
logSteps == <<"pre", "read", "lock", "copy", "unlock", "post">>

StepAfter(s) ==
  LET i == CHOOSE j \in 1..Len(logSteps) : logSteps[j] = s
  IN IF i < Len(logSteps) THEN logSteps[i + 1] ELSE "done"

\* Where fire() returns to once it has reported a hook's error.
AfterDiag_abort(s) == "done"
AfterDiag(s) == StepAfter(s)

TimingOf(s) == IF s = "pre" THEN PRE ELSE POST

\* ---------------------------------------------------------------- construction
\* New(w, l, tag): the level is the caller's, the active formatter is "null".
Init ==
  /\ level \in Levels
  /\ formatters = defaultFormatters
  /\ formatter = GetFormatter(defaultFormatters, "null")
  /\ has = newHooks
  /\ mu = 0
  /\ sink = <<>>
  /\ alt = <<>>
  /\ NoColor = TRUE
  /\ proc = "running"
  /\ exitCode = 0
  /\ pc = [t \in Threads |-> "idle"]
  /\ call = [t \in Threads |-> NoCall]

\* ---------------------------------------------------------------- logging calls
\* A thread calls one of Fatal..Println, At, Atf or Log with level lv (At, Atf
\* and Log only), template f (the f-methods only) and values v.
Call(t, op, lv, f, v) ==
  /\ proc = "running" /\ pc[t] = "idle"
  /\ Len(sink) < MaxSink
  /\ pc' = [pc EXCEPT ![t] = "gate"]
  /\ call' = [call EXCEPT ![t] = [NoCall EXCEPT !.op = op, !.lv = lv, !.f = f, !.v = v]]
  /\ UNCHANGED <<alt, level, formatter, formatters, has, mu, sink, NoColor, proc, exitCode>>

\* The method's level check: it returns at once, or builds the Entry and
\* enters log().
CheckGate(t) ==
  /\ proc = "running" /\ pc[t] = "gate"
  /\ IF Gate(call[t].op, level)
     THEN /\ pc' = [pc EXCEPT ![t] = logSteps[1]]
          /\ call' = [call EXCEPT ![t].built = TRUE,
                                  ![t].elevel = OpLevel(call[t].op, call[t].lv),
                                  ![t].fields = OpFields(call[t].op, call[t].f, call[t].v)]
     ELSE /\ pc' = [pc EXCEPT ![t] = "idle"]
          /\ call' = [call EXCEPT ![t] = NoCall]
  /\ UNCHANGED <<alt, level, formatter, formatters, has, mu, sink, NoColor, proc, exitCode>>

\* fire(at, e.EntryLevel(), e): e.Fire runs the hooks of the pair; a nil result
\* goes on, an error asks for the diagnostic, the built-in hooks end the
\* process or panic.
FireHooks(t) ==
  /\ proc = "running" /\ pc[t] \in {"pre", "post"} /\ ~call[t].dg
  /\ LET at == TimingOf(pc[t])
         lv == EntryLevel(call[t].elevel, level)
         r == Fire(has, at, lv)
         ev == Event("fire", at, lv, r.ran, r.res, r.by,
                     IF r.res = "panic" THEN PanicValue ELSE <<>>)
     IN /\ call' = [call EXCEPT ![t].ev = @ \o <<ev>>, ![t].dg = (r.res = "err")]
        /\ pc' = [pc EXCEPT ![t] = CASE r.res = "nil" -> StepAfter(pc[t])
                                      [] r.res = "panic" -> "panicking"
                                      [] OTHER -> pc[t]]
        /\ proc' = IF r.res = "exit" THEN "exited" ELSE proc
        /\ exitCode' = IF r.res = "exit" THEN ExitStatus ELSE exitCode
  /\ UNCHANGED <<alt, level, formatter, formatters, has, mu, sink, NoColor>>

\* fire's error branch: e.Lock(); Fprintf(os.Stdout, ...); e.Unlock()
FireDiag(t) ==
  /\ proc = "running" /\ pc[t] \in {"pre", "post"} /\ call[t].dg
  /\ mu = 0
  /\ call' = [call EXCEPT ![t].ev = @ \o <<Event("diag", -1, 0, <<>>, "hook", "", <<>>)>>,
                          ![t].dg = FALSE]
  /\ pc' = [pc EXCEPT ![t] = AfterDiag(pc[t])]
  /\ UNCHANGED <<alt, level, formatter, formatters, has, mu, sink, NoColor, proc, exitCode>>

\* NullFormatter and RawFormatter are empty structs, TextFormatter and a
\* caller's formatter are not: an interface value torn between two formatters
\* a and b is a method table with another type's data unless both are pointers
\* to empty structs.
Torn(a, b) == a # b /\ ~({a, b} \subseteq {"null", "raw"})

\* What a read of l.Formatter by thread t can see. read() holds no lock: while
\* another thread is at the assignment of SwapFormatter the read races with
\* it and sees the old value, the new one or a torn one.
Observed(t) ==
  {formatter} \cup
  UNION {{call[u].nf} \cup (IF Torn(formatter, call[u].nf) THEN {"torn"} ELSE {}) :
           u \in {w \in Threads \ {t} : pc[w] = "swap_set"}}

\* reader := read(e): e.Read() formats e with the formatter k it finds in
\* l.Formatter; an error is printed and the reader is returned all the same.
\* A call through a torn interface value is a fault of the process.
ReadWith(t, k) ==
  /\ proc = "running" /\ pc[t] = "read"
  /\ IF k = "torn"
     THEN /\ proc' = "faulted" /\ exitCode' = 2
          /\ UNCHANGED <<pc, call>>
     ELSE /\ LET r == Format(k, NoColor, EntryLevel(call[t].elevel, level), call[t].fields)
                 ev == <<Event("render", -1, 0, <<>>, IF r.err THEN "err" ELSE "nil", k, r.out)>>
                       \o (IF r.err THEN <<Event("diag", -1, 0, <<>>, "reader", "", <<>>)>> ELSE <<>>)
             IN call' = [call EXCEPT ![t].ev = @ \o ev, ![t].rd = r.out, ![t].fields = r.fields]
          /\ pc' = [pc EXCEPT ![t] = StepAfter(pc[t])]
          /\ UNCHANGED <<proc, exitCode>>
  /\ UNCHANGED <<alt, level, formatter, formatters, has, mu, sink, NoColor>>

Read(t) == \E k \in Observed(t) : ReadWith(t, k)

\* e.Lock()
Lock_noWait(t) ==
  /\ proc = "running" /\ pc[t] = "lock"
  /\ mu' = t
  /\ pc' = [pc EXCEPT ![t] = StepAfter(pc[t])]
  /\ UNCHANGED <<alt, level, formatter, formatters, has, sink, NoColor, proc, exitCode, call>>
Lock(t) ==
  /\ proc = "running" /\ pc[t] = "lock"
  /\ mu = 0
  /\ mu' = t
  /\ pc' = [pc EXCEPT ![t] = StepAfter(pc[t])]
  /\ UNCHANGED <<alt, level, formatter, formatters, has, sink, NoColor, proc, exitCode, call>>

\* copy(e, reader): io.Copy hands the buffer to the sink in one Write, and
\* makes no Write for an empty buffer; ok is whether the sink accepts it.
Copy(t, ok) ==
  /\ proc = "running" /\ pc[t] = "copy"
  /\ LET b == call[t].rd
         res == IF b = <<>> THEN "none" ELSE IF ok THEN "nil" ELSE "err"
         ev == <<Event("copy", -1, 0, <<>>, res, "", IF res = "nil" THEN b ELSE <<>>)>>
               \o (IF res = "err" THEN <<Event("diag", -1, 0, <<>>, "write", "", <<>>)>> ELSE <<>>)
     IN /\ sink' = IF res = "nil" THEN sink \o b ELSE sink
        /\ call' = [call EXCEPT ![t].ev = @ \o ev]
  /\ pc' = [pc EXCEPT ![t] = StepAfter(pc[t])]
  /\ UNCHANGED <<alt, level, formatter, formatters, has, mu, NoColor, proc, exitCode>>

\* e.Unlock()
Unlock(t) ==
  /\ proc = "running" /\ pc[t] = "unlock"
  /\ mu' = 0
  /\ pc' = [pc EXCEPT ![t] = StepAfter(pc[t])]
  /\ UNCHANGED <<alt, level, formatter, formatters, has, sink, NoColor, proc, exitCode, call>>

\* log() and the method return to the caller.
Return(t) ==
  /\ proc = "running" /\ pc[t] = "done"
  /\ pc' = [pc EXCEPT ![t] = "idle"]
  /\ call' = [call EXCEPT ![t] = NoCall]
  /\ UNCHANGED <<alt, level, formatter, formatters, has, mu, sink, NoColor, proc, exitCode>>

\* The panic of the POST@Panic hook unwinds the thread: a deferred recover()
\* of the caller stops it (testPanic), or it ends the process with status 2.
Recover(t) ==
  /\ proc = "running" /\ pc[t] = "panicking"
  /\ pc' = [pc EXCEPT ![t] = "idle"]
  /\ call' = [call EXCEPT ![t] = NoCall]
  /\ UNCHANGED <<alt, level, formatter, formatters, has, mu, sink, NoColor, proc, exitCode>>

Crash(t) ==
  /\ proc = "running" /\ pc[t] = "panicking"
  /\ proc' = "crashed"
  /\ exitCode' = 2
  /\ UNCHANGED <<alt, level, formatter, formatters, has, mu, sink, NoColor, pc, call>>

\* ---------------------------------------------------------------- AtTo, AtTof
\* The statements of AtTo and AtTof, in order.
atToSteps == <<"to_pre", "to_read", "to_copy", "to_post">>

ToStepAfter(s) ==
  LET i == CHOOSE j \in 1..Len(atToSteps) : atToSteps[j] = s
  IN IF i < Len(atToSteps) THEN atToSteps[i + 1] ELSE "done"

\* l.AtTo(lv, to, v...) or l.AtTof(lv, to, m, v...): e := newEntry(...)
AtTo(t, op, lv, f, v) ==
  /\ proc = "running" /\ pc[t] = "idle"
  /\ Len(alt) < MaxSink
  /\ pc' = [pc EXCEPT ![t] = atToSteps[1]]
  /\ call' = [call EXCEPT ![t] = [NoCall EXCEPT !.op = op, !.lv = lv, !.f = f, !.v = v,
                                                !.built = TRUE, !.elevel = lv,
                                                !.fields = OpFields(op, f, v)]]
  /\ UNCHANGED <<alt, level, formatter, formatters, has, mu, sink, NoColor, proc, exitCode>>

\* fire(PRE, lv, e) and fire(POST, lv, e): the level is the argument lv.
ToFire(t) ==
  /\ proc = "running" /\ pc[t] \in {"to_pre", "to_post"} /\ ~call[t].dg
  /\ LET at == IF pc[t] = "to_pre" THEN PRE ELSE POST
         lv == call[t].lv
         r == Fire(has, at, lv)
         ev == Event("fire", at, lv, r.ran, r.res, r.by,
                     IF r.res = "panic" THEN PanicValue ELSE <<>>)
     IN /\ call' = [call EXCEPT ![t].ev = @ \o <<ev>>, ![t].dg = (r.res = "err")]
        /\ pc' = [pc EXCEPT ![t] = CASE r.res = "nil" -> ToStepAfter(pc[t])
                                      [] r.res = "panic" -> "panicking"
                                      [] OTHER -> pc[t]]
        /\ proc' = IF r.res = "exit" THEN "exited" ELSE proc
        /\ exitCode' = IF r.res = "exit" THEN ExitStatus ELSE exitCode
  /\ UNCHANGED <<alt, level, formatter, formatters, has, mu, sink, NoColor>>

\* fire's error branch: e.Lock(); Fprintf(os.Stdout, ...); e.Unlock()
ToFireDiag(t) ==
  /\ proc = "running" /\ pc[t] \in {"to_pre", "to_post"} /\ call[t].dg
  /\ mu = 0
  /\ call' = [call EXCEPT ![t].ev = @ \o <<Event("diag", -1, 0, <<>>, "hook", "", <<>>)>>,
                          ![t].dg = FALSE]
  /\ pc' = [pc EXCEPT ![t] = ToStepAfter(pc[t])]
  /\ UNCHANGED <<alt, level, formatter, formatters, has, mu, sink, NoColor, proc, exitCode>>

\* reader, _ := e.Read(): the error is dropped.
ToReadWith(t, k) ==
  /\ proc = "running" /\ pc[t] = "to_read"
  /\ IF k = "torn"
     THEN /\ proc' = "faulted" /\ exitCode' = 2
          /\ UNCHANGED <<pc, call>>
     ELSE /\ LET r == Format(k, NoColor, EntryLevel(call[t].elevel, level), call[t].fields)
                 ev == Event("render", -1, 0, <<>>, IF r.err THEN "err" ELSE "nil", k, r.out)
             IN call' = [call EXCEPT ![t].ev = @ \o <<ev>>, ![t].rd = r.out,
                                     ![t].fields = r.fields]
          /\ pc' = [pc EXCEPT ![t] = ToStepAfter(pc[t])]
          /\ UNCHANGED <<proc, exitCode>>
  /\ UNCHANGED <<alt, level, formatter, formatters, has, mu, sink, NoColor>>

ToRead(t) == \E k \in Observed(t) : ToReadWith(t, k)

\* io.Copy(to, reader): one Write of the buffer to the caller's Writer, none
\* for an empty buffer; the result is dropped and no lock is taken.
ToCopy_ownSink(t, ok) ==
  /\ proc = "running" /\ pc[t] = "to_copy"
  /\ LET b == call[t].rd
         res == IF b = <<>> THEN "none" ELSE IF ok THEN "nil" ELSE "err"
     IN /\ sink' = IF res = "nil" THEN sink \o b ELSE sink
        /\ call' = [call EXCEPT ![t].ev = @ \o <<Event("copy", -1, 0, <<>>, res, "to",
                                                       IF res = "nil" THEN b ELSE <<>>)>>]
  /\ pc' = [pc EXCEPT ![t] = ToStepAfter(pc[t])]
  /\ UNCHANGED <<alt, level, formatter, formatters, has, mu, NoColor, proc, exitCode>>
ToCopy(t, ok) ==
  /\ proc = "running" /\ pc[t] = "to_copy"
  /\ LET b == call[t].rd
         res == IF b = <<>> THEN "none" ELSE IF ok THEN "nil" ELSE "err"
     IN /\ alt' = IF res = "nil" THEN alt \o b ELSE alt
        /\ call' = [call EXCEPT ![t].ev = @ \o <<Event("copy", -1, 0, <<>>, res, "to",
                                                       IF res = "nil" THEN b ELSE <<>>)>>]
  /\ pc' = [pc EXCEPT ![t] = ToStepAfter(pc[t])]
  /\ UNCHANGED <<level, formatter, formatters, has, mu, sink, NoColor, proc, exitCode>>

\* ---------------------------------------------------------------- Entry
\* e := newEntry(l, lv, fields...), the fields written out by the caller
\* (bld = "literal", v is the Field sequence) or made by mkFields(idx, v...) or
\* mkFormatFields(f, v...).
BuildFields(bld, idx, f, v) ==
  CASE bld = "mkFields" -> mkFields(idx, v)
    [] bld = "mkFormatFields" -> mkFormatFields(f, v)
    [] OTHER -> v

NewEntry(t, lv, bld, idx, f, v) ==
  /\ proc = "running" /\ pc[t] = "idle"
  /\ pc' = [pc EXCEPT ![t] = "entry"]
  /\ call' = [call EXCEPT ![t] = [NoCall EXCEPT !.op = "newEntry", !.lv = lv, !.f = f, !.v = v,
                                                !.bld = bld, !.idx = idx,
                                                !.built = TRUE, !.elevel = lv,
                                                !.fields = BuildFields(bld, idx, f, v)]]
  /\ UNCHANGED <<alt, level, formatter, formatters, has, mu, sink, NoColor, proc, exitCode>>

\* e.Read(): s, err := e.Format(e); return bytes.NewBuffer(s), err
EntryRead(t) ==
  /\ proc = "running" /\ pc[t] = "entry" /\ Len(call[t].ev) < MaxEvents
  /\ LET r == Format(formatter, NoColor, EntryLevel(call[t].elevel, level), call[t].fields)
         ev == Event("render", -1, 0, <<>>, IF r.err THEN "err" ELSE "nil", formatter, r.out)
     IN call' = [call EXCEPT ![t].ev = @ \o <<ev>>, ![t].rd = r.out, ![t].fields = r.fields]
  /\ UNCHANGED <<alt, level, formatter, formatters, has, mu, sink, NoColor, proc, exitCode, pc>>

\* e.SetEntryLevel(l)
SetEntryLevel(t, l) ==
  /\ proc = "running" /\ pc[t] = "entry" /\ Len(call[t].ev) < MaxEvents
  /\ call' = [call EXCEPT ![t].elevel = l,
                          ![t].ev = @ \o <<Event("setlevel", -1, l, <<>>, "nil", "", <<>>)>>]
  /\ UNCHANGED <<alt, level, formatter, formatters, has, mu, sink, NoColor, proc, exitCode, pc>>

\* e.EntryLevel(): the event holds the Level returned.
GetEntryLevel(t) ==
  /\ proc = "running" /\ pc[t] = "entry" /\ Len(call[t].ev) < MaxEvents
  /\ call' = [call EXCEPT ![t].ev = @ \o <<Event("level", -1, EntryLevel(call[t].elevel, level),
                                                  <<>>, "nil", "", <<>>)>>]
  /\ UNCHANGED <<alt, level, formatter, formatters, has, mu, sink, NoColor, proc, exitCode, pc>>

\* The caller drops the Entry.
DropEntry(t) ==
  /\ proc = "running" /\ pc[t] = "entry"
  /\ pc' = [pc EXCEPT ![t] = "idle"]
  /\ call' = [call EXCEPT ![t] = NoCall]
  /\ UNCHANGED <<alt, level, formatter, formatters, has, mu, sink, NoColor, proc, exitCode>>

\* ---------------------------------------------------------------- configuration
\* h.AddHook(at, l, hk...)
DoAddHook(t, at, l, hk, max) ==
  /\ proc = "running" /\ pc[t] = "idle"
  /\ NumHooks(has) < max + NumHooks(newHooks)
  /\ has' = AddHook(has, at, l, hk)
  /\ UNCHANGED <<alt, level, formatter, formatters, mu, sink, NoColor, proc, exitCode, pc, call>>

\* l.SetFormatter(k, f)
SetFormatter(t, k, f) ==
  /\ proc = "running" /\ pc[t] = "idle"
  /\ formatters' = [formatters EXCEPT ![k] = f]
  /\ UNCHANGED <<alt, level, formatter, has, mu, sink, NoColor, proc, exitCode, pc, call>>

\* l.SwapFormatter(f): nf := l.GetFormatter(f)
SwapFormatter(t, f) ==
  /\ proc = "running" /\ pc[t] = "idle"
  /\ pc' = [pc EXCEPT ![t] = "swap_lock"]
  /\ call' = [call EXCEPT ![t] = [NoCall EXCEPT !.op = "SwapFormatter", !.f = <<f>>,
                                                !.nf = GetFormatter(formatters, f)]]
  /\ UNCHANGED <<alt, level, formatter, formatters, has, mu, sink, NoColor, proc, exitCode>>

\* l.Lock()
SwapLock(t) ==
  /\ proc = "running" /\ pc[t] = "swap_lock"
  /\ mu = 0
  /\ mu' = t
  /\ pc' = [pc EXCEPT ![t] = "swap_set"]
  /\ UNCHANGED <<alt, level, formatter, formatters, has, sink, NoColor, proc, exitCode, call>>

\* l.Formatter = nf
SwapSet(t) ==
  /\ proc = "running" /\ pc[t] = "swap_set"
  /\ formatter' = call[t].nf
  /\ pc' = [pc EXCEPT ![t] = "swap_unlock"]
  /\ UNCHANGED <<alt, level, formatters, has, mu, sink, NoColor, proc, exitCode, call>>

\* l.Unlock(), and the return to the caller
SwapUnlock(t) ==
  /\ proc = "running" /\ pc[t] = "swap_unlock"
  /\ mu' = 0
  /\ pc' = [pc EXCEPT ![t] = "idle"]
  /\ call' = [call EXCEPT ![t] = NoCall]
  /\ UNCHANGED <<alt, level, formatter, formatters, has, sink, NoColor, proc, exitCode>>

\* ---------------------------------------------------------------- inputs
MESSAGE == <<"MESSAGE">>

\* The level argument of At, Atf and Log; the other methods take none.
LevelArgs(op, lvs) == IF op \in AtOps \cup LogOps THEN lvs ELSE {LUnrecognized}

\* The template of the f-methods.
TemplateArgs(op) == IF op \in FormatOps THEN {<<"%s">>} ELSE {<<>>}

ValueArgs == {<<MESSAGE>>}

\* The steps of the threads T, with the arguments of the calls drawn from the
\* given sets.
NextOver(T, ops, lvs, hookLvs, hookArgs, maxHooks, swapNames, setNames, kinds) ==
  \E t \in T :
    \/ \E op \in ops : \E lv \in LevelArgs(op, lvs) : \E f \in TemplateArgs(op) :
         \E v \in ValueArgs : Call(t, op, lv, f, v)
    \/ CheckGate(t)
    \/ FireHooks(t)
    \/ FireDiag(t)
    \/ Read(t)
    \/ Lock(t)
    \/ \E ok \in BOOLEAN : Copy(t, ok)
    \/ Unlock(t)
    \/ Return(t)
    \/ Recover(t)
    \/ Crash(t)
    \/ \E at \in Timings : \E l \in hookLvs : \E hk \in hookArgs : DoAddHook(t, at, l, hk, maxHooks)
    \/ \E k \in setNames : \E f \in kinds : SetFormatter(t, k, f)
    \/ \E f \in swapNames : SwapFormatter(t, f)
    \/ SwapLock(t)
    \/ SwapSet(t)
    \/ SwapUnlock(t)

\* One caller: every method and every level argument, hooks at LInfo, the raw
\* formatter and the failing ones under the name "custom".
Next ==
  NextOver({1}, PipelineOps, Levels, {LInfo}, {<<"a">>, <<"e">>}, MaxHooks,
           {"raw", "custom"}, {"custom"}, {"fail", "failnil"})

Spec == Init /\ [][Next]_vars

\* The threads' own steps: what a started call does next, which the caller
\* cannot withhold.
Step(t) ==
  \/ CheckGate(t) \/ FireHooks(t) \/ FireDiag(t) \/ Read(t) \/ Lock(t)
  \/ (\E ok \in BOOLEAN : Copy(t, ok)) \/ Unlock(t) \/ Return(t)
  \/ SwapLock(t) \/ SwapSet(t) \/ SwapUnlock(t)

\* A started call keeps running: the Go scheduler runs every runnable
\* goroutine.
StdOps == FatalOps \cup PanicOps \cup PrintOps

\* One caller of the StdLogger methods, with a failing hook at LPanic or
\* LFatal, the raw and the text formatter.
FairNext ==
  NextOver({1}, StdOps, {LUnrecognized}, {LPanic, LFatal}, {<<"e">>}, MaxHooks,
           {"raw", "text"}, {"raw"}, {"fail"})

\* The levels New is called with: one below both gates, one at each gate and
\* one above both.
FairLevels == {LUnrecognized, LPanic, LFatal, LError}

FairInit == Init /\ level \in FairLevels

FairSpec == FairInit /\ [][FairNext]_vars /\ \A t \in Threads : WF_vars(Step(t))

\* One caller of Print, Printf, Println and Log, with up to three hooks at
\* LError or LInfo, registered one or two at a time.
HooksNext ==
  NextOver({1}, PrintOps \cup LogOps, {LUnrecognized, LPanic, LError, LInfo}, {LError, LInfo},
           {<<"a">>, <<"e">>, <<"f", "b">>}, MaxHooks + 1, {"raw"}, {"raw"}, {"fail"})

\* The levels New is called with: two below the gate of Print, the gate's
\* level and one above it.
HooksLevels == {LUnrecognized, LFatal, LError, LInfo}

HooksInit == Init /\ level \in HooksLevels

HooksSpec == HooksInit /\ [][HooksNext]_vars

\* Several callers of At and SwapFormatter on one logger. The registries are
\* not guarded by the lock: a hook is registered only while no call is running.
ConcLevels == {LInfo}

ConcInit == Init /\ level \in ConcLevels

ConcNext ==
  \E t \in Threads :
    \/ Call(t, "At", LInfo, <<>>, <<MESSAGE>>)
    \/ CheckGate(t)
    \/ FireHooks(t)
    \/ FireDiag(t)
    \/ Read(t)
    \/ Lock(t)
    \/ Copy(t, TRUE)
    \/ Unlock(t)
    \/ Return(t)
    \/ (\A u \in Threads : pc[u] = "idle") /\ DoAddHook(t, PRE, LInfo, <<"e">>, MaxHooks)
    \/ \E f \in {"raw", "text", "custom"} : SwapFormatter(t, f)
    \/ SwapLock(t)
    \/ SwapSet(t)
    \/ SwapUnlock(t)

ConcSpec == ConcInit /\ [][ConcNext]_vars

\* The same callers, with records of level LPanic as well, whose panic the
\* caller recovers or not. A started call keeps running, and a thread that
\* waits for the mutex gets it: sync.Mutex hands the lock to a starving waiter.
ConcFairNext ==
  \/ ConcNext
  \/ \E t \in Threads :
       \/ Call(t, "At", LPanic, <<>>, <<MESSAGE>>)
       \/ Recover(t)
       \/ Crash(t)

ConcFairSpec ==
  /\ ConcInit /\ [][ConcFairNext]_vars
  /\ \A t \in Threads :
       /\ WF_vars(Step(t))
       /\ SF_vars(Lock(t) \/ SwapLock(t) \/ FireDiag(t))

\* One caller of AtTo and AtTof next to At, Atf and Log, with a record level
\* that is set or left LUnrecognized and hooks at LUnrecognized or LInfo.
ToLevels == {LPanic, LInfo}

ToInit == Init /\ level \in ToLevels

ToNext ==
  \/ NextOver({1}, AtOps \cup LogOps, {LUnrecognized, LInfo}, {LUnrecognized, LInfo},
              {<<"a">>, <<"e">>}, MaxHooks, {"raw"}, {"raw"}, {"fail"})
  \/ \E t \in {1} :
       \/ \E op \in ToOps : \E lv \in {LUnrecognized, LInfo} : \E f \in TemplateArgs(op) :
            \E v \in ValueArgs : AtTo(t, op, lv, f, v)
       \/ ToFire(t)
       \/ ToFireDiag(t)
       \/ ToRead(t)
       \/ \E ok \in BOOLEAN : ToCopy(t, ok)

ToSpec == ToInit /\ [][ToNext]_vars

\* ---------------------------------------------------------------- Entry inputs
\* The fields a caller writes out: a template and values, two of them with the
\* same Order.
LiteralField(order, value) == [Order |-> order, Key |-> FieldKey(order), Value |-> value]

FieldArgs ==
  {[Order |-> 1, Key |-> FormatKey, Value |-> <<"%s", "+", "%s">>],
   LiteralField(0, <<"a">>), LiteralField(1, <<"b">>), LiteralField(1, <<"c">>),
   LiteralField(2, <<"d">>)}

\* The sequences of n different elements of S.
InjSeqs(S, n) == {q \in [1..n -> S] : \A i, j \in 1..n : i # j => q[i] # q[j]}

LiteralFields == UNION {InjSeqs(FieldArgs, n) : n \in 0..MaxFields}

\* The values handed to mkFields and mkFormatFields: up to MaxFields of them.
Values == <<<<"a">>, <<"b">>, <<"c">>, <<"d">>, <<"e">>>>

ValueSeqs == {SubSeq(Values, 1, n) : n \in 0..MaxFields}

Indexes == {0, 1, 2}

Template == <<"%s", "-", "%s">>

\* One caller that builds an Entry, calls its methods and drops it, and swaps
\* the active formatter in between.
EntryOver(lvs, literals, idxs, vals, setLvs, names) ==
  \E t \in {1} :
    \/ \E lv \in lvs : \E fds \in literals : NewEntry(t, lv, "literal", 0, <<>>, fds)
    \/ \E lv \in lvs : \E i \in idxs : \E v \in vals : NewEntry(t, lv, "mkFields", i, <<>>, v)
    \/ \E lv \in lvs : \E v \in vals : NewEntry(t, lv, "mkFormatFields", 0, Template, v)
    \/ EntryRead(t)
    \/ \E l \in setLvs : SetEntryLevel(t, l)
    \/ GetEntryLevel(t)
    \/ DropEntry(t)
    \/ \E f \in names : SwapFormatter(t, f)
    \/ SwapLock(t)
    \/ SwapSet(t)
    \/ SwapUnlock(t)

\* Entries of every shape, rendered.
FieldsLevels == {LInfo}

FieldsInit == Init /\ level \in FieldsLevels

FieldsNext == EntryOver({LDebug}, LiteralFields, Indexes, ValueSeqs, {LDebug}, {"raw", "text"})

FieldsSpec == FieldsInit /\ [][FieldsNext]_vars

\* Entries made with a level or with none, set to every level, on loggers of
\* every level.
LevelNext ==
  EntryOver({LUnrecognized, LDebug}, {<<>>}, {0}, {<<MESSAGE>>}, Levels, {"raw"})

LevelSpec == Init /\ [][LevelNext]_vars

\* One caller of Fatal, Panic and At (at the levels that end the call and at
\* one that lets it return), with up to two hooks, passing or failing, at the
\* levels of the built-in hooks.
TermNext ==
  NextOver({1}, {"Fatal", "Panic", "At"}, {LPanic, LFatal, LError}, {LPanic, LFatal},
           {<<"a">>, <<"e">>}, MaxHooks + 1, {"raw"}, {"raw"}, {"fail"})

\* The levels New is called with: the gate of Panic and the gate of Fatal.
TermLevels == {LPanic, LFatal}

TermInit == Init /\ level \in TermLevels

TermSpec == TermInit /\ [][TermNext]_vars

\* ---------------------------------------------------------------- properties
\* The pipeline steps a call has done, in order: 1 the PRE firing, 2 the
\* render, 3 the copy to the sink, 4 the POST firing.
StageOf(e) ==
  CASE e.k = "fire" /\ e.at = PRE -> 1
    [] e.k = "render" -> 2
    [] e.k = "copy" -> 3
    [] e.k = "fire" /\ e.at = POST -> 4
    [] OTHER -> 0

RECURSIVE Stages(_)
Stages(ev) ==
  IF ev = <<>> THEN <<>>
  ELSE (IF StageOf(ev[1]) = 0 THEN <<>> ELSE <<StageOf(ev[1])>>) \o Stages(Tail(ev))

IsPrefix(a, b) == Len(a) <= Len(b) /\ a = SubSeq(b, 1, Len(a))

\* C1: for every record in the pipeline the PRE firing, the render, the copy
\* to the sink and the POST firing happen in this order, each once: no POST
\* hook starts before the record's copy is complete.
C1_PipelineOrder ==
  \A t \in Threads : IsPrefix(Stages(call[t].ev), <<1, 2, 3, 4>>)

\* A call whose POST firing ran a hook after its bytes reached the sink.
C1_Witness ==
  \E t \in Threads :
    /\ Stages(call[t].ev) = <<1, 2, 3, 4>>
    /\ \E i \in 1..Len(call[t].ev) :
         call[t].ev[i].k = "copy" /\ call[t].ev[i].out # <<>>
    /\ \E i \in 1..Len(call[t].ev) :
         call[t].ev[i].k = "fire" /\ call[t].ev[i].at = POST /\ call[t].ev[i].ran # <<>>

LastEvent(c) == c.ev[Len(c.ev)]

EventOf(c, k) == c.ev[CHOOSE i \in 1..Len(c.ev) : c.ev[i].k = k]

\* The call's copy handed the sink exactly what was rendered, unless the sink
\* refused the Write.
WroteRendered(c) ==
  /\ Stages(c.ev) = <<1, 2, 3>>
  /\ EventOf(c, "copy").res # "err" => EventOf(c, "copy").out = EventOf(c, "render").out

\* C2 as stated: a call to Fatal, Fatalf or Fatalln never returns to its
\* caller, whatever the logger's level.
C2_AnyLevel ==
  [][\A t \in Threads : call[t].op \in FatalOps => pc'[t] # "idle"]_vars

\* C2, amended: on a logger whose level is >= LFatal a call to Fatal, Fatalf
\* or Fatalln never returns, the process ends with exit status 1, and it ends
\* only when the copy of the call's rendered record to the sink is complete.
C2_FatalExits ==
  /\ [][\A t \in Threads : call[t].op \in FatalOps =>
          /\ level >= LFatal => pc'[t] # "idle"
          /\ (proc = "running" /\ proc' # "running" /\ call'[t] # call[t]) =>
               /\ proc' = "exited" /\ exitCode' = 1
               /\ WroteRendered(call[t])]_vars
  /\ \A t \in Threads :
       (pc[t] = "gate" /\ call[t].op \in FatalOps /\ level >= LFatal)
         ~> (proc = "exited" /\ exitCode = 1)

\* The exit hook has ended a Fatalf call after its bytes reached the sink.
C2_Witness ==
  \E t \in Threads :
    /\ call[t].op = "Fatalf" /\ proc = "exited" /\ level = LFatal
    /\ Stages(call[t].ev) = <<1, 2, 3, 4>>
    /\ LastEvent(call[t]).by = "exit"
    /\ sink = <<"MESSAGE", "\n">>

\* C3 as stated: a call to Panic, Panicf or Panicln returns to its caller only
\* by the panic, whatever the logger's level.
C3_AnyLevel ==
  [][\A t \in Threads :
       (call[t].op \in PanicOps /\ pc'[t] = "idle") => pc[t] = "panicking"]_vars

\* C3, amended: on a logger whose level is >= LPanic a call to Panic, Panicf
\* or Panicln panics with the value "panic hook", and only when the copy of the
\* call's rendered record to the sink is complete.
C3_PanicPanics ==
  /\ [][\A t \in Threads : call[t].op \in PanicOps =>
          /\ (level >= LPanic /\ pc'[t] = "idle") => pc[t] = "panicking"
          /\ (pc[t] # "panicking" /\ pc'[t] = "panicking") =>
               /\ LastEvent(call'[t]).out = <<"panic hook">>
               /\ WroteRendered(call[t])]_vars
  /\ \A t \in Threads :
       (pc[t] = "gate" /\ call[t].op \in PanicOps /\ level >= LPanic)
         ~> (pc[t] = "panicking" /\ call[t].op \in PanicOps)

\* A Panicln call is unwinding after its bytes reached the sink.
C3_Witness ==
  \E t \in Threads :
    /\ call[t].op = "Panicln" /\ pc[t] = "panicking" /\ level = LPanic
    /\ Stages(call[t].ev) = <<1, 2, 3, 4>>
    /\ LastEvent(call[t]).by = "panic"
    /\ sink = <<"MESSAGE", "\n">>

\* C4: At and Atf never check the logger's level: at every level and for every
\* lv the call builds an Entry of level lv, and returns only once it has fired
\* PRE, rendered, copied and fired POST (or panics out of the POST firing);
\* what it renders is handed to the logger's sink, and with the raw formatter
\* At(lv, "MESSAGE") and Atf(lv, "%s", "MESSAGE") render exactly "MESSAGE\n".
C4_AtAlwaysLogs ==
  [][\A t \in Threads : call[t].op \in AtOps =>
       /\ (pc[t] = "gate" /\ pc'[t] # "gate") =>
            /\ pc'[t] = "pre" /\ call'[t].built
            /\ call'[t].elevel = call[t].lv
       /\ (pc[t] = "read" /\ pc'[t] # "read" /\ formatter = "raw") =>
            /\ call'[t].rd = <<"MESSAGE", "\n">>
            /\ LastEvent(call'[t]).by = "raw"
       /\ (pc[t] = "copy" /\ pc'[t] # "copy") =>
            \/ sink' = sink \o call[t].rd
            \/ sink' = sink /\ LastEvent(call'[t]).res = "write"
       /\ pc'[t] = "idle" =>
            \/ Stages(call[t].ev) = <<1, 2, 3, 4>>
            \/ pc[t] = "panicking" /\ WroteRendered([call[t] EXCEPT !.ev = SubSeq(@, 1, Len(@) - 1)])]_vars

\* An Atf(LInfo, "%s", "MESSAGE") on a logger of the lowest level has
\* appended "MESSAGE\n" to the sink.
C4_Witness ==
  \E t \in Threads :
    /\ call[t].op = "Atf" /\ call[t].lv = LInfo /\ level = LUnrecognized
    /\ pc[t] = "done" /\ Stages(call[t].ev) = <<1, 2, 3, 4>>
    /\ sink = <<"MESSAGE", "\n">>

\* C5: Print, Printf and Println go into the pipeline exactly when the
\* logger's level is >= LError, and their record has level LInfo: each firing
\* runs the hooks of (timing, LInfo), from the first on, and no others.
C5_PrintGateAndLevel ==
  [][\A t \in Threads : call[t].op \in PrintOps =>
       /\ (pc[t] = "gate" /\ pc'[t] # "gate") =>
            /\ (pc'[t] = "pre") <=> (level >= LError)
            /\ (pc'[t] = "idle") <=> (level < LError)
            /\ pc'[t] = "pre" => call'[t].elevel = LInfo
       /\ (pc[t] \in {"pre", "post"} /\ ~call[t].dg /\ call'[t] # call[t]) =>
            LET e == LastEvent(call'[t])
                l == has[TimingOf(pc[t])][LInfo]
            IN /\ e.k = "fire" /\ e.lv = LInfo
               /\ IsPrefix(e.ran, l)
               /\ l # <<>> => e.ran # <<>>
       /\ (pc[t] # "gate" /\ pc'[t] = "idle") => Stages(call[t].ev) = <<1, 2, 3, 4>>]_vars

\* A Print on a logger of level LError has run the hook registered at
\* (POST, LInfo).
C5_Witness ==
  \E t \in Threads :
    /\ call[t].op = "Print" /\ level = LError /\ pc[t] = "done"
    /\ has[POST][LInfo] = <<"a">>
    /\ LastEvent(call[t]).k = "fire" /\ LastEvent(call[t]).ran = <<"a">>

\* The levels at which a gated method returns at once.
Rejected(op, lvl) ==
  \/ op \in FatalOps /\ lvl < LFatal
  \/ op \in PanicOps /\ lvl < LPanic
  \/ op \in PrintOps /\ lvl < LError

\* C6: a gated call that is rejected does nothing: it builds no Entry, fires
\* no hook, renders nothing, does not take the lock, and leaves the sink, the
\* hooks and the formatters as they were.
C6_RejectedIsNoOp ==
  [][\A t \in Threads : Rejected(call[t].op, level) =>
       /\ ~call[t].built /\ call[t].ev = <<>>
       /\ (pc[t] = "gate" /\ pc'[t] # "gate") =>
            /\ pc'[t] = "idle" /\ call'[t] = NoCall
            /\ UNCHANGED <<sink, has, formatters, formatter, mu, proc, exitCode>>]_vars

\* A Println is at its level check on a logger of level LFatal whose sink
\* already holds a record.
C6_Witness ==
  \E t \in Threads :
    /\ call[t].op = "Println" /\ level = LFatal /\ pc[t] = "gate"
    /\ sink # <<>> /\ formatter = "raw"

\* The step of thread t is a firing of hooks.
Firing(t) == pc[t] \in {"pre", "post"} /\ ~call[t].dg /\ call'[t] # call[t]

\* The effective level of the record of thread t, and the list registered for
\* it at the timing of the firing t is at.
FiredLevel(t) == IF call[t].elevel # LUnrecognized THEN call[t].elevel ELSE level

FiredList(t) == has[IF pc[t] = "pre" THEN PRE ELSE POST][FiredLevel(t)]

\* C7: a firing at timing at for a record of effective level L runs hooks of
\* the list registered at exactly (at, L), from its first on, and no hook that
\* is only registered at another level or the other timing; with nothing
\* registered at (at, L) it runs nothing, reports nothing and the call goes on.
C7_ExactPair ==
  [][\A t \in Threads : Firing(t) =>
       LET e == LastEvent(call'[t])
       IN /\ e.k = "fire" /\ e.lv = FiredLevel(t)
          /\ e.at = (IF pc[t] = "pre" THEN PRE ELSE POST)
          /\ IsPrefix(e.ran, FiredList(t))
          /\ FiredList(t) # <<>> => e.ran # <<>>
          /\ FiredList(t) = <<>> =>
               /\ e.ran = <<>> /\ e.res = "nil" /\ ~call'[t].dg
               /\ pc'[t] = (IF pc[t] = "pre" THEN "read" ELSE "done")]_vars

\* A record of level LInfo has run the hook of (POST, LInfo) and not the one
\* of (POST, LError); its PRE firing found no hook.
C7_Witness ==
  \E t \in Threads :
    /\ call[t].op = "Log" /\ call[t].elevel = LInfo /\ pc[t] = "post"
    /\ has[POST][LError] = <<"a">> /\ has[POST][LInfo] = <<"e">> /\ has[PRE][LInfo] = <<>>
    /\ LastEvent(call[t]).ran = <<"e">>
    /\ call[t].ev[1].k = "fire" /\ call[t].ev[1].ran = <<>> /\ call[t].ev[1].res = "nil"

\* The index at which a firing of the list l stops: its first hook that does
\* not return nil, or its last hook.
StopIndex(l) ==
  LET bad == {i \in 1..Len(l) : HookResult(l[i]) # "nil"}
  IN IF bad = {} THEN Len(l) ELSE CHOOSE i \in bad : \A j \in bad : i <= j

\* C8: every list of the registry only grows at its end, and a firing runs
\* the hooks of the pair in the order they were added, up to and including
\* the first that returns an error, whose error it returns.
C8_AppendOnlyInOrder ==
  [][/\ has' # has => \A at \in Timings : \A l \in Levels : IsPrefix(has[at][l], has'[at][l])
     /\ \A t \in Threads : Firing(t) =>
          LET e == LastEvent(call'[t])
              l == FiredList(t)
              n == StopIndex(l)
          IN /\ e.ran = SubSeq(l, 1, n)
             /\ IF n > 0 /\ HookResult(l[n]) # "nil"
                THEN e.by = l[n] /\ e.res = HookResult(l[n])
                ELSE e.by = "" /\ e.res = "nil"]_vars

\* Two AddHook calls built the list a, f, b of (PRE, LInfo); a firing ran a,
\* then f, which failed, and not b.
C8_Witness ==
  \E t \in Threads :
    /\ has[PRE][LInfo] = <<"a", "f", "b">> /\ call[t].elevel = LInfo
    /\ pc[t] = "pre" /\ call[t].dg
    /\ LastEvent(call[t]).ran = <<"a", "f">>
    /\ LastEvent(call[t]).by = "f" /\ LastEvent(call[t]).res = "err"

\* C9: a hook's error changes neither the record nor the call: the firing
\* and its report leave the sink, the Entry's fields and the rendered bytes
\* alone and the call goes on with its next step, so a call returns only
\* after the PRE firing, the render, the copy and the POST firing; with the
\* raw formatter the bytes are "MESSAGE\n" whether or not a PRE hook failed.
C9_HookErrorHarmless ==
  [][\A t \in Threads : call[t].op \in PipelineOps =>
       /\ (pc[t] \in {"pre", "post"} /\ call'[t] # call[t]) =>
            /\ UNCHANGED <<sink, formatter, formatters, has, mu>>
            /\ call'[t].fields = call[t].fields /\ call'[t].rd = call[t].rd
       /\ (Firing(t) /\ LastEvent(call'[t]).res = "err") =>
            /\ proc' = "running" /\ pc'[t] = pc[t] /\ call'[t].dg
       /\ (call[t].dg /\ call'[t] # call[t]) =>
            /\ proc' = "running"
            /\ pc'[t] = (IF pc[t] = "pre" THEN "read" ELSE "done")
       /\ (pc[t] = "read" /\ pc'[t] # "read" /\ formatter = "raw") =>
            call'[t].rd = <<"MESSAGE", "\n">>
       /\ (pc[t] = "done" /\ pc'[t] = "idle") => Stages(call[t].ev) = <<1, 2, 3, 4>>]_vars

\* A call is about to return: its PRE hook failed, its bytes are in the sink
\* and its POST hook ran.
C9_Witness ==
  \E t \in Threads :
    /\ pc[t] = "done" /\ Stages(call[t].ev) = <<1, 2, 3, 4>>
    /\ call[t].ev[1].res = "err" /\ call[t].ev[1].by = "e"
    /\ LastEvent(call[t]).ran = <<"a">>
    /\ sink = <<"MESSAGE", "\n">>

\* C10: when the formatter returns an error for a record, the sink receives
\* no bytes for that record.
C10_RenderErrorSkipsWrite ==
  \A t \in Threads : \A i, j \in 1..Len(call[t].ev) :
    (call[t].ev[i].k = "render" /\ call[t].ev[i].res = "err" /\ call[t].ev[j].k = "copy")
      => call[t].ev[j].out = <<>>

\* A thread is inside a SwapFormatter call.
Swapping(t) == pc[t] \in {"swap_lock", "swap_set", "swap_unlock"}

\* A step of thread t that renders a record.
Renders(t) == pc[t] = "read" /\ pc'[t] # "read"

\* C11: SwapFormatter looks the name up (the Null formatter when nothing is
\* registered under it), never leaves the active formatter unset and has
\* assigned it when it returns; the active formatter then changes only by the
\* assignment of another SwapFormatter call, and every render that starts
\* while no such call is at its assignment, on any thread, is done by the
\* active formatter and does not fail the process.
C11_SwapTakesEffect ==
  /\ [](formatter # Absent)
  /\ [][/\ \A t \in Threads :
            /\ (~Swapping(t) /\ Swapping(t)') =>
                 LET name == call'[t].f[1]
                 IN /\ formatters[name] # Absent => call'[t].nf = formatters[name]
                    /\ formatters[name] = Absent => call'[t].nf = "null"
            /\ (Swapping(t) /\ ~Swapping(t)') =>
                 /\ formatter = call[t].nf /\ formatter' = formatter
                 /\ proc' = "running" /\ pc'[t] = "idle"
            /\ (Renders(t) /\ \A u \in Threads : pc[u] # "swap_set") =>
                 /\ LastEvent(call'[t]).k \in {"render", "diag"}
                 /\ EventOf(call'[t], "render").by = formatter
                 /\ call'[t].rd = Format(formatter, NoColor, EntryLevel(call[t].elevel, level),
                                         call[t].fields).out
                 /\ proc' = "running"
        /\ formatter' # formatter =>
             \E u \in Threads : pc[u] = "swap_set" /\ mu = u /\ formatter' = call[u].nf]_vars

\* Thread 1 swapped to "custom", which is not registered, and returned; the
\* record thread 2 rendered afterwards is empty and the sink still holds only
\* the record written under the raw formatter.
C11_Witness ==
  /\ formatter = "null" /\ pc[1] = "idle" /\ pc[2] = "lock"
  /\ EventOf(call[2], "render").by = "null" /\ call[2].rd = <<>>
  /\ sink = <<"MESSAGE", "\n">>
  /\ formatters["custom"] = Absent

\* C12: no step of an AtTo or AtTof call changes the logger's sink; its write
\* hands the rendered bytes to the caller's Writer in a step that neither
\* holds nor takes the lock; only such a write changes that Writer; the PRE
\* firing, the render, the write and the POST firing happen in this order.
C12_AtToBypassesSink ==
  /\ [](\A t \in Threads : call[t].op \in ToOps =>
          /\ IsPrefix(Stages(call[t].ev), <<1, 2, 3, 4>>)
          /\ mu # t
          /\ pc[t] = "done" => Stages(call[t].ev) = <<1, 2, 3, 4>>)
  /\ [][/\ \A t \in Threads : call[t].op \in ToOps =>
            /\ (pc'[t] # pc[t] \/ call'[t] # call[t]) => sink' = sink
            /\ (pc[t] = "to_copy" /\ pc'[t] # "to_copy") =>
                 /\ mu' = mu
                 /\ LastEvent(call'[t]).k = "copy"
                 /\ LastEvent(call'[t]).res = "nil" => alt' = alt \o call[t].rd
                 /\ LastEvent(call'[t]).res # "nil" => alt' = alt
        /\ alt' # alt => \E t \in Threads : call[t].op \in ToOps /\ pc[t] = "to_copy"]_vars

\* An AtTof call is about to return: "MESSAGE\n" is in the caller's Writer,
\* the logger's sink holds the record of an earlier At only, and a POST hook
\* ran after the write.
C12_Witness ==
  \E t \in Threads :
    /\ call[t].op = "AtTof" /\ pc[t] = "done"
    /\ alt = <<"MESSAGE", "\n">> /\ sink = <<"MESSAGE", "\n">>
    /\ LastEvent(call[t]).at = POST /\ LastEvent(call[t]).ran = <<"a">>

\* The records the callers of ConcSpec can render: "MESSAGE" at LInfo under
\* each formatter that renders bytes.
Records ==
  {Format(k, NoColor, LInfo, mkFields(0, <<MESSAGE>>)).out : k \in {"raw", "text"}}

\* s is a concatenation of whole records.
RECURSIVE IsConcat(_)
IsConcat(s) ==
  \/ s = <<>>
  \/ \E r \in Records :
       IsPrefix(r, s) /\ IsConcat(SubSeq(s, Len(r) + 1, Len(s)))

\* The threads between the Lock and the Unlock of log().
Copying == {t \in Threads : pc[t] \in {"copy", "unlock"}}

\* C13: at most one thread at a time is between the Lock and the Unlock of
\* log(), and it holds the lock; the sink grows only by the whole rendered
\* record of that thread, so it always is a concatenation of whole records.
C13_CopyUnderLock ==
  /\ [](/\ Cardinality(Copying) <= 1
        /\ \A t \in Copying : mu = t
        /\ IsConcat(sink))
  /\ [][sink' # sink =>
          \E t \in Threads :
            /\ pc[t] = "copy" /\ mu = t /\ mu' = t
            /\ sink' = sink \o call[t].rd]_vars

\* Thread 1 has copied its record and still holds the lock while thread 2
\* waits for it with a record rendered by another formatter.
C13_Witness ==
  /\ pc[1] = "unlock" /\ pc[2] = "lock" /\ mu = 1
  /\ call[1].rd = <<"MESSAGE", "\n">> /\ call[2].rd # <<>> /\ call[2].rd # call[1].rd
  /\ sink = call[1].rd

\* C14: every started call eventually returns, panics out of the built-in
\* panic hook or ends with the process in the built-in exit or an unrecovered
\* built-in panic; a thread that is not in a call, or unwinds, does not hold
\* the lock.
C14_CallsEnd ==
  /\ [](\A t \in Threads : pc[t] \in {"idle", "panicking"} => mu # t)
  /\ \A t \in Threads :
       (pc[t] # "idle") ~> (pc[t] \in {"idle", "panicking"} \/ proc \in {"exited", "crashed"})

\* The fields of fds that carry a value, in their position order.
IsValueField(x) == x.Key # FormatKey

ValueFields(fds) == SelectSeq(fds, IsValueField)

Ascending(p) == \A i \in 1..(Len(p) - 1) : p[i].Order <= p[i + 1].Order

\* The ways to put the value fields of fds in ascending Order.
AscendingArrangements(fds) ==
  LET vf == ValueFields(fds)
      n == Len(vf)
  IN {p \in {[i \in 1..n |-> vf[q[i]]] : q \in InjSeqs(1..n, n)} : Ascending(p)}

\* The one of them that keeps fields of equal Order in their position order.
StableArrangement(fds) ==
  LET vf == ValueFields(fds)
      n == Len(vf)
      q == CHOOSE r \in InjSeqs(1..n, n) :
             \A i \in 1..(n - 1) :
               \/ vf[r[i]].Order < vf[r[i + 1]].Order
               \/ vf[r[i]].Order = vf[r[i + 1]].Order /\ r[i] < r[i + 1]
  IN [i \in 1..n |-> vf[q[i]]]

RECURSIVE Join(_)
Join(p) == IF p = <<>> THEN <<>> ELSE p[1].Value \o Join(Tail(p))

\* What the raw formatter is to write for fds with its value fields arranged
\* as p.
RawOutput(fds, p) ==
  (IF \E i \in 1..Len(fds) : fds[i].Key = FormatKey
   THEN Sprintf(fds[CHOOSE i \in 1..Len(fds) : fds[i].Key = FormatKey].Value,
                [i \in 1..Len(p) |-> p[i].Value])
   ELSE Join(p)) \o <<"\n">>

\* A step in which thread t reads its Entry under the raw formatter.
RawRead(t) ==
  /\ pc[t] = "entry" /\ formatter = "raw"
  /\ Len(call'[t].ev) = Len(call[t].ev) + 1 /\ LastEvent(call'[t]).k = "render"

SetThenGet(ev, i, j) ==
  /\ i < j /\ ev[i].k = "setlevel" /\ ev[j].k = "level"
  /\ \A m \in (i + 1)..(j - 1) : ev[m].k # "setlevel"

\* C16 as stated: EntryLevel() after SetEntryLevel(L) returns L, whatever L
\* and the logger's level are.
C16_AnyLevel ==
  \A t \in Threads : \A i, j \in 1..Len(call[t].ev) :
    SetThenGet(call[t].ev, i, j) => call[t].ev[j].lv = call[t].ev[i].lv

\* C16, amended: EntryLevel() after SetEntryLevel(L) returns L when L is not
\* LUnrecognized, whatever the logger's level is, and the logger's level when
\* L is LUnrecognized.
C16_SetThenGetLevel ==
  \A t \in Threads : \A i, j \in 1..Len(call[t].ev) :
    SetThenGet(call[t].ev, i, j) =>
      /\ call[t].ev[i].lv # LUnrecognized => call[t].ev[j].lv = call[t].ev[i].lv
      /\ call[t].ev[i].lv = LUnrecognized => call[t].ev[j].lv = level

\* On a logger of level LPanic an Entry made with level LUnrecognized was set
\* to LDebug and then returned LDebug.
C16_Witness ==
  \E t \in Threads :
    /\ level = LPanic /\ call[t].lv = LUnrecognized /\ Len(call[t].ev) = 2
    /\ call[t].ev[1].k = "setlevel" /\ call[t].ev[1].lv = LDebug
    /\ call[t].ev[2].k = "level" /\ call[t].ev[2].lv = LDebug

\* C17: in log() a thread renders only while it holds the lock, and no thread
\* is about to render while another is at the assignment of SwapFormatter.
C17_RenderUnderLock ==
  /\ [](\A t, u \in Threads : ~(pc[t] = "read" /\ pc[u] = "swap_set"))
  /\ [][\A t \in Threads : (call[t].op \in PipelineOps /\ Renders(t)) => mu = t]_vars

\* C18: every firing of every entry point, AtTo and AtTof included, is at the
\* Entry's effective level: its own level when that is not LUnrecognized, the
\* logger's otherwise, so that no hook registered at LUnrecognized runs for
\* a record made with LUnrecognized on a logger of another level.
C18_FiredAtEffectiveLevel ==
  \A t \in Threads : \A i \in 1..Len(call[t].ev) :
    (call[t].op \in PipelineOps \cup ToOps /\ call[t].ev[i].k = "fire") =>
      call[t].ev[i].lv = (IF call[t].elevel # LUnrecognized THEN call[t].elevel ELSE level)

\* The Entry of thread t as a builder made it, before any of its methods ran.
Built(t, bld) == pc[t] = "entry" /\ call[t].bld = bld /\ call[t].ev = <<>>

\* The fields of fds have pairwise different Orders.
DistinctOrders(fds) == \A i, j \in 1..Len(fds) : i # j => fds[i].Order # fds[j].Order

\* fds, from position from on, is the values v with the Orders first,
\* first + 1, ... and the keys "Field<Order>".
ValuesFrom(fds, from, first, v) ==
  /\ Len(fds) = from - 1 + Len(v)
  /\ \A i \in 1..Len(v) :
       fds[from - 1 + i] = [Order |-> first + i - 1, Key |-> <<"Field", first + i - 1>>,
                           Value |-> v[i]]

\* C19 as stated: what mkFields and mkFormatFields build is in ascending
\* Order and has no two fields with the same Order.
C19_DistinctOrders ==
  \A t \in Threads :
    /\ Built(t, "mkFields") =>
         /\ ValuesFrom(call[t].fields, 1, call[t].idx, call[t].v)
         /\ Ascending(call[t].fields) /\ DistinctOrders(call[t].fields)
    /\ Built(t, "mkFormatFields") =>
         /\ call[t].fields[1].Key = FormatKey
         /\ Len(call[t].fields) = Len(call[t].v) + 1
         /\ Ascending(call[t].fields) /\ DistinctOrders(call[t].fields)

\* C19, amended: mkFields(start, v1..vn) builds the Orders start, ...,
\* start+n-1 with the keys "Field<Order>"; mkFormatFields(template, v1..vn)
\* builds a "Format" field of Order 1 followed by the value fields of Orders
\* 1..n: in ascending Order, the value fields pairwise different in Order,
\* the "Format" field and the first value field both of Order 1.
C19_BuilderOrders ==
  \A t \in Threads :
    /\ Built(t, "mkFields") =>
         /\ ValuesFrom(call[t].fields, 1, call[t].idx, call[t].v)
         /\ Ascending(call[t].fields) /\ DistinctOrders(call[t].fields)
    /\ Built(t, "mkFormatFields") =>
         /\ call[t].fields[1] = [Order |-> 1, Key |-> FormatKey, Value |-> call[t].f]
         /\ ValuesFrom(call[t].fields, 2, 1, call[t].v)
         /\ Ascending(call[t].fields) /\ DistinctOrders(Tail(call[t].fields))
         /\ Len(call[t].v) >= 1 => call[t].fields[2].Order = call[t].fields[1].Order

\* mkFormatFields with two values built the Orders 1, 1, 2.
C19_Witness ==
  \E t \in Threads :
    /\ Built(t, "mkFormatFields") /\ Len(call[t].v) = 2
    /\ [i \in 1..3 |-> call[t].fields[i].Order] = <<1, 1, 2>>

\* The levels of the built-in hooks, and the hook newHooks registers there.
TermLevelsOf == {LFatal, LPanic}

BuiltIn(lv) == IF lv = LFatal THEN "exit" ELSE "panic"

\* The built-in hook is the first of the POST list of its level.
BuiltInFirst == \A lv \in TermLevelsOf : has[POST][lv] # <<>> /\ has[POST][lv][1] = BuiltIn(lv)

\* A firing of the POST list of a built-in's level invoked the built-in and
\* nothing else.
OnlyBuiltInRan ==
  \A t \in Threads : \A i \in 1..Len(call[t].ev) :
    LET e == call[t].ev[i]
    IN (e.k = "fire" /\ e.at = POST /\ e.lv \in TermLevelsOf) =>
         e.ran = <<BuiltIn(e.lv)>> /\ e.res = BuiltIn(e.lv)

\* The call of thread t has ended in the built-in hook of its level.
Terminated(t) ==
  /\ call[t].ev # <<>>
  /\ LastEvent(call[t]).k = "fire" /\ LastEvent(call[t]).at = POST
  /\ LastEvent(call[t]).res \in {"exit", "panic"}

\* The PRE firing of the terminated call of thread t invoked the hooks ran.
PreRan(t, ran) ==
  \E i \in 1..(Len(call[t].ev) - 1) :
    /\ call[t].ev[i].k = "fire" /\ call[t].ev[i].at = PRE
    /\ call[t].ev[i].lv = LastEvent(call[t]).lv
    /\ call[t].ev[i].ran = ran

InPipeline(t) == call[t].op \in PipelineOps /\ call[t].built

\* The POST firing of the call of thread t ended in res.
PostEnded(t, res) ==
  /\ call[t].ev # <<>>
  /\ LastEvent(call[t]).k = "fire" /\ LastEvent(call[t]).at = POST
  /\ LastEvent(call[t]).res = res

\* C21: in the log pipeline the record's effective level alone decides the
\* end of the process: a POST firing follows the copy of the record, is at
\* the effective level, ends in the built-in exit exactly when that level is
\* LFatal and in the built-in panic exactly when it is LPanic, whatever the
\* method; the process has exited or a thread is unwinding only after such a
\* firing, and a call returns only when its record's effective level is
\* neither.
C21_LevelDecidesTermination ==
  /\ \A t \in Threads : \A i \in 1..Len(call[t].ev) :
       LET e == call[t].ev[i]
       IN (InPipeline(t) /\ e.k = "fire" /\ e.at = POST) =>
            /\ e.lv = FiredLevel(t)
            /\ (e.res = "exit") <=> (e.lv = LFatal)
            /\ (e.res = "panic") <=> (e.lv = LPanic)
            /\ \E j \in 1..(i - 1) : call[t].ev[j].k = "copy"
  /\ \A t \in Threads :
       /\ pc[t] = "panicking" => InPipeline(t) /\ PostEnded(t, "panic")
       /\ (pc[t] = "done" /\ InPipeline(t)) => FiredLevel(t) \notin {LFatal, LPanic}
  /\ proc = "exited" => \E t \in Threads : InPipeline(t) /\ PostEnded(t, "exit")
  /\ proc = "crashed" => \E t \in Threads : InPipeline(t) /\ PostEnded(t, "panic")
  /\ proc \in {"running", "exited", "crashed"}

\* At(LUnrecognized, ...) on a logger of level LFatal ended the process, and
\* so did At(LFatal, ...) on a logger of another level.
C21_Witness ==
  /\ proc = "exited" /\ call[1].op \in AtOps \cup LogOps /\ PostEnded(1, "exit")
  /\ \/ call[1].lv = LUnrecognized /\ level = LFatal
     \/ call[1].lv = LFatal /\ level = LDebug

====
